---- MODULE Spec2Model ----
(***************************************************************************)
(* Model of the crate `pieced` (src/src/lib.rs): the two functions         *)
(* as_with_rest and as_exact, which reinterpret a borrowed slice &[T] as   *)
(* a slice of N-element arrays &[[T; N]].                                  *)
(*                                                                         *)
(* Storage is a sequence `mem` of element values; a slice is a view        *)
(* [ptr, len] into it (ptr counted in elements from the start of the       *)
(* allocation).  An array view additionally remembers the group size n and *)
(* the element values seen through it.  usize arithmetic is UsizeBits wide.*)
(***************************************************************************)
EXTENDS Integers, Sequences, FiniteSets, TLC

\* ---------------------------------------------------------------- bounds
UsizeBits == 3
MaxLen == 7
MaxN == 7

Values == {"a", "b"}

\* ------------------------------------------------------- machine integers
RECURSIVE Pow2(_)
Pow2(b) == IF b = 0 THEN 1 ELSE 2 * Pow2(b - 1)

USIZE_MAX == Pow2(UsizeBits) - 1

Min(a, b) == IF a < b THEN a ELSE b

Lens == 0 .. Min(MaxLen, USIZE_MAX)
Ns == 0 .. Min(MaxN, USIZE_MAX)

\* Panic payloads.
NoPanic == "none"
PanicChunkSize == "chunk size must be non-zero"
PanicExact == "pieced::as_exact requires N != 0 and the slice to split exactly into N-element chunks"
PanicDivZero == "attempt to divide by zero"
PanicRemZero == "attempt to calculate the remainder with a divisor of zero"
PanicMulOverflow == "attempt to multiply with overflow"
PanicSplitAt == "mid > len"

\* usize `a / b`: panics on a zero divisor.
UDiv(a, b) ==
    IF b = 0 THEN [panic |-> PanicDivZero, val |-> 0]
    ELSE [panic |-> NoPanic, val |-> a \div b]

\* usize `a % b`: panics on a zero divisor.
URem(a, b) ==
    IF b = 0 THEN [panic |-> PanicRemZero, val |-> 0]
    ELSE [panic |-> NoPanic, val |-> a % b]

\* usize `a * b`: with overflow checks (debug builds, const evaluation) an
\* overflow panics, without them the product wraps.
UMul(a, b, overflow_checks) ==
    IF a * b > USIZE_MAX /\ overflow_checks
    THEN [panic |-> PanicMulOverflow, val |-> 0]
    ELSE [panic |-> NoPanic, val |-> (a * b) % (USIZE_MAX + 1)]

\* ------------------------------------------------------------------ views
EmptyView == [ptr |-> 0, len |-> 0]
EmptyChunks == [ptr |-> 0, len |-> 0, n |-> 0, elems |-> << >>]

\* Read of the element at address a.  A read outside the allocation is
\* undefined behaviour: it yields an arbitrary value `junk`.
ReadMem(m, a, junk) == IF a >= 0 /\ a < Len(m) THEN m[a + 1] ELSE junk

\* The element values seen through a slice view.
SliceElems(m, v, junk) == [i \in 1 .. v.len |-> ReadMem(m, v.ptr + (i - 1), junk)]

\* slice.split_at(mid): panics if mid > len, else ([0, mid), [mid, len)).
SplitAt(s, mid) ==
    IF mid > s.len
    THEN [panic |-> PanicSplitAt, head |-> EmptyView, tail |-> EmptyView]
    ELSE [panic |-> NoPanic,
          head |-> [ptr |-> s.ptr, len |-> mid],
          tail |-> [ptr |-> s.ptr + mid, len |-> s.len - mid]]

\* Mutant: the array stride is one element instead of N.
FromRawParts_stride1(m, ptr, new_len, n, junk) ==
    [ptr |-> ptr, len |-> new_len, n |-> n,
     elems |-> [i \in 1 .. new_len |->
                  [j \in 1 .. n |-> ReadMem(m, ptr + (i - 1) + (j - 1), junk)]]]

\* core::slice::from_raw_parts(ptr.cast::<[T; N]>(), new_len): a view of
\* new_len arrays; array i holds the elements at ptr + i*N .. ptr + i*N + N-1.
FromRawParts(m, ptr, new_len, n, junk) ==
    [ptr |-> ptr, len |-> new_len, n |-> n,
     elems |-> [i \in 1 .. new_len |->
                  [j \in 1 .. n |-> ReadMem(m, ptr + (i - 1) * n + (j - 1), junk)]]]

\* ------------------------------------------------------------ as_with_rest
\* Mutant: the chunk-size assertion is missing.
WithRestAssert_missing(n) == TRUE

\* assert!(N != 0, ...)
WithRestAssert(n) == n # 0

\* Mutant: one chunk too few.
WithRestLen_short(slice_len, n) ==
    IF n = 0 THEN [panic |-> PanicDivZero, val |-> 0]
    ELSE [panic |-> NoPanic,
          val |-> IF slice_len \div n > 0 THEN (slice_len \div n) - 1 ELSE 0]

\* Mutant: the chunk count is rounded up.
WithRestLen_ceil(slice_len, n) ==
    IF n = 0 THEN [panic |-> PanicDivZero, val |-> 0]
    ELSE [panic |-> NoPanic, val |-> (slice_len + n - 1) \div n]

\* let len = slice.len() / N;
WithRestLen(slice_len, n) == UDiv(slice_len, n)

\* Mutant: the split point is one chunk early.
WithRestMid_early(len, n, overflow_checks) ==
    [panic |-> NoPanic, val |-> IF len > 0 THEN (len - 1) * n ELSE 0]

\* len * N, the argument of split_at
WithRestMid(len, n, overflow_checks) == UMul(len, n, overflow_checks)

\* Mutant: one array too many.
WithRestNewLen_plus1(multiple_len, n) ==
    IF n = 0 THEN [panic |-> PanicDivZero, val |-> 0]
    ELSE [panic |-> NoPanic, val |-> (multiple_len \div n) + 1]

\* let new_len = multiple_of_n.len() / N;
WithRestNewLen(multiple_len, n) == UDiv(multiple_len, n)

WithRestFrame(pc, panic, len, multiple_of_n, new_len, chunks, rest, rest_elems) ==
    [pc |-> pc, panic |-> panic, len |-> len, multiple_of_n |-> multiple_of_n,
     new_len |-> new_len, chunks |-> chunks, rest |-> rest, rest_elems |-> rest_elems]

WithRestReady == WithRestFrame("ready", NoPanic, 0, EmptyView, 0, EmptyChunks, EmptyView, << >>)

WithRestPanic(msg) == WithRestFrame("panicked", msg, 0, EmptyView, 0, EmptyChunks, EmptyView, << >>)

as_with_rest(m, s, n, overflow_checks, junk) ==
    IF ~WithRestAssert(n) THEN WithRestPanic(PanicChunkSize)
    ELSE LET len == WithRestLen(s.len, n) IN
    IF len.panic # NoPanic THEN WithRestPanic(len.panic)
    ELSE LET mid == WithRestMid(len.val, n, overflow_checks) IN
    IF mid.panic # NoPanic THEN WithRestPanic(mid.panic)
    ELSE LET sp == SplitAt(s, mid.val) IN
    IF sp.panic # NoPanic THEN WithRestPanic(sp.panic)
    ELSE LET new_len == WithRestNewLen(sp.head.len, n) IN
    IF new_len.panic # NoPanic THEN WithRestPanic(new_len.panic)
    ELSE WithRestFrame("returned", NoPanic, len.val, sp.head, new_len.val,
                       FromRawParts(m, sp.head.ptr, new_len.val, n, junk),
                       sp.tail, SliceElems(m, sp.tail, junk))

\* ---------------------------------------------------------------- as_exact
\* Mutant: only the chunk size is asserted.
ExactAssert_nonzero_only(slice_len, n) == [panic |-> NoPanic, val |-> n # 0]

\* Mutant: the assertion is the one the doc comment describes (the call
\* panics when the slice splits exactly and N != 0).
ExactAssert_as_documented(slice_len, n) ==
    [panic |-> NoPanic, val |-> ~(n # 0 /\ slice_len % n = 0)]

\* Mutant: an empty slice is rejected.
ExactAssert_nonempty(slice_len, n) ==
    [panic |-> NoPanic, val |-> n # 0 /\ slice_len # 0 /\ slice_len % n = 0]

\* N != 0 && slice.len() % N == 0   (&& short-circuits: no `%` when N == 0)
ExactAssert(slice_len, n) ==
    IF n = 0 THEN [panic |-> NoPanic, val |-> FALSE]
    ELSE LET r == URem(slice_len, n) IN [panic |-> r.panic, val |-> r.val = 0]

\* Mutant: one array too few.
ExactNewLen_short(slice_len, n) ==
    IF n = 0 THEN [panic |-> PanicDivZero, val |-> 0]
    ELSE [panic |-> NoPanic,
          val |-> IF slice_len \div n > 0 THEN (slice_len \div n) - 1 ELSE 0]

\* let new_len = slice.len() / N;
ExactNewLen(slice_len, n) == UDiv(slice_len, n)

ExactFrame(pc, panic, new_len, chunks) ==
    [pc |-> pc, panic |-> panic, new_len |-> new_len, chunks |-> chunks]

ExactReady == ExactFrame("ready", NoPanic, 0, EmptyChunks)

ExactPanic(msg) == ExactFrame("panicked", msg, 0, EmptyChunks)

as_exact(m, s, n, junk) ==
    LET c == ExactAssert(s.len, n) IN
    IF c.panic # NoPanic THEN ExactPanic(c.panic)
    ELSE IF ~c.val THEN ExactPanic(PanicExact)
    ELSE LET new_len == ExactNewLen(s.len, n) IN
    IF new_len.panic # NoPanic THEN ExactPanic(new_len.panic)
    ELSE ExactFrame("returned", NoPanic, new_len.val,
                    FromRawParts(m, s.ptr, new_len.val, n, junk))

\* ------------------------------------------------------------------ state
VARIABLES mem, slice, N, with_rest, exact

vars == <<mem, slice, N, with_rest, exact>>

Mems == UNION {[1 .. l -> Values] : l \in Lens}

Init ==
    /\ mem \in Mems
    /\ slice \in {[ptr |-> p, len |-> l] : p \in Lens, l \in Lens}
    /\ slice.ptr + slice.len <= Len(mem)
    /\ N \in Ns
    /\ with_rest = WithRestReady
    /\ exact = ExactReady

\* A panic aborts the caller: nothing runs after it.
Aborted == with_rest.pc = "panicked" \/ exact.pc = "panicked"

CallAsWithRest ==
    /\ ~Aborted
    /\ with_rest.pc = "ready"
    /\ \E overflow_checks \in BOOLEAN, junk \in Values :
         with_rest' = as_with_rest(mem, slice, N, overflow_checks, junk)
    /\ UNCHANGED <<mem, slice, N, exact>>

CallAsExact ==
    /\ ~Aborted
    /\ exact.pc = "ready"
    /\ \E junk \in Values : exact' = as_exact(mem, slice, N, junk)
    /\ UNCHANGED <<mem, slice, N, with_rest>>

Next == CallAsWithRest \/ CallAsExact

Spec == Init /\ [][Next]_vars

\* ----------------------------------------------------------- properties
\* The source sequence: the elements the input slice borrows.
Source == SubSeq(mem, slice.ptr + 1, slice.ptr + slice.len)

\* Concatenation of a sequence of arrays.
RECURSIVE Flatten(_)
Flatten(groups) ==
    IF groups = << >> THEN << >> ELSE Head(groups) \o Flatten(Tail(groups))

\* The element addresses an array view covers.
ChunkRange(c) == {c.ptr + i : i \in 0 .. c.len * c.n - 1}

\* The element addresses a slice view covers.
ViewRange(v) == {v.ptr + i : i \in 0 .. v.len - 1}

WithRestCalled == with_rest.pc # "ready"
ExactCalled == exact.pc # "ready"

\* C1: for every source s and nonzero N, as_with_rest returns (chunks, rest)
\* and flattening chunks in order, then appending rest, reproduces s exactly.
C1_RoundTrip ==
    (WithRestCalled /\ N # 0) =>
        /\ with_rest.pc = "returned"
        /\ Flatten(with_rest.chunks.elems) \o with_rest.rest_elems = Source

C1_Witness ==
    /\ with_rest.pc = "returned"
    /\ with_rest.chunks.len >= 2
    /\ with_rest.rest.len >= 1
    /\ N >= 2
    /\ Source[1] # Source[2]
    /\ Source[slice.len] # Source[1]
    /\ slice.ptr > 0

\* C2: for nonzero N, as_with_rest returns floor(len / N) chunks and a rest of
\* len mod N elements, and the rest is strictly shorter than N.
C2_Lengths ==
    (WithRestCalled /\ N # 0) =>
        /\ with_rest.pc = "returned"
        /\ with_rest.chunks.len = slice.len \div N
        /\ Len(with_rest.chunks.elems) = slice.len \div N
        /\ \A i \in 1 .. Len(with_rest.chunks.elems) :
             Len(with_rest.chunks.elems[i]) = N
        /\ with_rest.rest.len = slice.len % N
        /\ Len(with_rest.rest_elems) = slice.len % N
        /\ with_rest.rest.len < N

C2_Witness ==
    /\ with_rest.pc = "returned"
    /\ N = 3
    /\ slice.len = 7
    /\ with_rest.chunks.len = 2
    /\ with_rest.rest.len = 1
    /\ with_rest.rest_elems = <<"b">>

\* C3: for nonzero N and a source whose length is a multiple of N, as_exact
\* returns the same chunk view as the chunks of as_with_rest, whose rest is
\* empty.
C3_Exactness ==
    (WithRestCalled /\ ExactCalled /\ N # 0 /\ slice.len % N = 0) =>
        /\ with_rest.pc = "returned"
        /\ exact.pc = "returned"
        /\ exact.chunks = with_rest.chunks
        /\ with_rest.rest.len = 0
        /\ with_rest.rest_elems = << >>

C3_Witness ==
    /\ with_rest.pc = "returned"
    /\ exact.pc = "returned"
    /\ N = 2
    /\ slice.len = 4
    /\ exact.chunks.len = 2
    /\ exact.chunks.elems[1] # exact.chunks.elems[2]

\* C4: with N = 0 both functions panic on their assertion (never on a division
\* or remainder by zero) for every source, and return no view.
C4_ZeroChunkSize ==
    N = 0 =>
        /\ WithRestCalled =>
             /\ with_rest.pc = "panicked"
             /\ with_rest.panic = PanicChunkSize
             /\ with_rest.chunks = EmptyChunks
             /\ with_rest.rest = EmptyView
        /\ ExactCalled =>
             /\ exact.pc = "panicked"
             /\ exact.panic = PanicExact
             /\ exact.chunks = EmptyChunks

C4_Witness ==
    /\ N = 0
    /\ slice.len = 0
    /\ with_rest.pc = "panicked"

C4_WitnessExact ==
    /\ N = 0
    /\ slice.len = 5
    /\ exact.pc = "panicked"

\* C5: as_exact with nonzero N on a source whose length is not a multiple of N
\* panics and returns no (truncated) view.
C5_InexactPanics ==
    (ExactCalled /\ N # 0 /\ slice.len % N # 0) =>
        /\ exact.pc = "panicked"
        /\ exact.panic = PanicExact
        /\ exact.chunks = EmptyChunks

C5_Witness ==
    /\ exact.pc = "panicked"
    /\ N = 2
    /\ slice.len = 5

\* C6: for nonzero N and a source whose length is a multiple of N, as_exact
\* returns len / N arrays, array i holding source elements i*N .. i*N + N-1,
\* so that flattening them reproduces the source.
C6_ExactResult ==
    (ExactCalled /\ N # 0 /\ slice.len % N = 0) =>
        /\ exact.pc = "returned"
        /\ exact.chunks.len = slice.len \div N
        /\ Len(exact.chunks.elems) = slice.len \div N
        /\ \A i \in 0 .. (slice.len \div N) - 1 : \A j \in 0 .. N - 1 :
             exact.chunks.elems[i + 1][j + 1] = Source[i * N + j + 1]
        /\ Flatten(exact.chunks.elems) = Source

C6_Witness ==
    /\ exact.pc = "returned"
    /\ N = 3
    /\ slice.len = 6
    /\ Source[1] # Source[4]
    /\ Source[2] # Source[3]

C8_Degenerate ==
    N # 0 =>
        /\ (WithRestCalled /\ slice.len = 0) =>
             /\ with_rest.pc = "returned"
             /\ with_rest.chunks.len = 0
             /\ with_rest.chunks.elems = << >>
             /\ with_rest.rest.len = 0
             /\ with_rest.rest_elems = << >>
        /\ (WithRestCalled /\ slice.len < N) =>
             /\ with_rest.pc = "returned"
             /\ with_rest.chunks.len = 0
             /\ with_rest.chunks.elems = << >>
             /\ with_rest.rest = slice
             /\ with_rest.rest_elems = Source
        /\ (ExactCalled /\ slice.len = 0) =>
             /\ exact.pc = "returned"
             /\ exact.chunks.len = 0
             /\ exact.chunks.elems = << >>

C8_Witness ==
    /\ N = 4
    /\ slice.len = 0
    /\ with_rest.pc = "returned"
    /\ exact.pc = "returned"

C8_WitnessShort ==
    /\ N = 4
    /\ slice.len = 3
    /\ with_rest.pc = "returned"
    /\ with_rest.rest_elems = <<"a", "b", "a">>

\* C9: the two assertions are the only failures: for nonzero N and every usize
\* length as_with_rest returns, since the split point (len / N) * N never
\* exceeds len (no wrap, no out-of-bounds split_at); as_exact panics if and
\* only if N = 0 or len mod N # 0.
C9_OnlyFailures ==
    /\ (WithRestCalled /\ N # 0) =>
         /\ with_rest.pc = "returned"
         /\ with_rest.len * N <= slice.len
         /\ with_rest.len * N <= USIZE_MAX
         /\ with_rest.multiple_of_n.len = with_rest.len * N
    /\ WithRestCalled => (with_rest.pc = "panicked" <=> N = 0)
    /\ ExactCalled =>
         (exact.pc = "panicked" <=> (N = 0 \/ (N # 0 /\ slice.len % N # 0)))

C9_Witness ==
    /\ with_rest.pc = "returned"
    /\ slice.len = Min(MaxLen, USIZE_MAX)
    /\ N >= 2
    /\ N <= slice.len
    /\ slice.len * N > USIZE_MAX
    /\ exact.pc = "panicked"

\* C10: in as_with_rest with nonzero N the chunk view covers exactly the
\* source indices [0, k*N) and the rest exactly [k*N, len), k = floor(len/N):
\* new_len = k, new_len * N is the length of the split-off prefix, the two
\* ranges are disjoint and together cover the source once.  In as_exact the
\* chunk view covers exactly [0, len).
C10_Coverage ==
    /\ with_rest.pc = "returned" =>
         LET k == slice.len \div N IN
         /\ with_rest.new_len = k
         /\ with_rest.chunks.len = k
         /\ with_rest.chunks.n = N
         /\ with_rest.new_len * N = with_rest.multiple_of_n.len
         /\ ChunkRange(with_rest.chunks) = {slice.ptr + i : i \in 0 .. k * N - 1}
         /\ ChunkRange(with_rest.chunks) = ViewRange(with_rest.multiple_of_n)
         /\ ViewRange(with_rest.rest) = {slice.ptr + i : i \in k * N .. slice.len - 1}
         /\ ChunkRange(with_rest.chunks) \cap ViewRange(with_rest.rest) = {}
         /\ ChunkRange(with_rest.chunks) \cup ViewRange(with_rest.rest) = ViewRange(slice)
         /\ Cardinality(ChunkRange(with_rest.chunks)) + Cardinality(ViewRange(with_rest.rest))
              = slice.len
    /\ exact.pc = "returned" =>
         /\ exact.chunks.n = N
         /\ ChunkRange(exact.chunks) = ViewRange(slice)

C10_Witness ==
    /\ with_rest.pc = "returned"
    /\ N = 3
    /\ slice.len = 5
    /\ slice.ptr = 1
    /\ Len(mem) = 7
    /\ with_rest.rest.ptr = 4

C10_WitnessExact ==
    /\ exact.pc = "returned"
    /\ N = 2
    /\ slice.len = 6
    /\ slice.ptr = 1

====
